---------------------------- MODULE Spec2Model ----------------------------
(***************************************************************************)
(* Model of the etrace error library (src/src/lib.rs).                     *)
(*                                                                         *)
(* Error<T> and WrappedError values live in local slots (the variables of  *)
(* the calling code); the Rc<WrappedError> boxes that hold sub-errors live *)
(* in `heap`, one box per address, each with its strong count.             *)
(* Option<X> is modelled as a sequence of length 0 (None) or 1 (Some(x)).  *)
(***************************************************************************)
EXTENDS Integers, Sequences, FiniteSets, TLC

VARIABLES errors, wrapped, heap, props, last

\* the calling code of one thread
svars == <<errors, wrapped, heap, props, last>>

\* One WrappedError cause shared by clones held on several threads (possible
\* because of `unsafe impl Send for WrappedError`): the strong count of its
\* Rc box, whether the box was freed, whether freed memory was touched, how
\* many clones each thread holds, and where each thread is in Rc::clone /
\* Rc::drop, with the count it read.
VARIABLES strong, freed, uaf, held, tpc, tmp

tvars == <<strong, freed, uaf, held, tpc, tmp>>

vars == <<errors, wrapped, heap, props, last, strong, freed, uaf, held, tpc, tmp>>

---------------------------------------------------------------------------
(* Bounds and input sets *)

\* the number of propagate_* calls (each allocates one Rc box) in a run
MaxProps == 2

\* the number of clones of the shared error alive at once, over all threads,
\* and the highest strong count a clone is started at
MaxHolders == 3

\* a stand-in for the "defensive maximum depth (e.g., 10,000)" of spec section
\* 4.4, small enough that the chains of the model exceed it
RenderMaxDepth == 2

\* the caller-defined kind enum T (spec section 8: enum {Io, Parse})
Kinds == {"Kind::Io", "Kind::Parse"}

\* explicit descriptions supplied by callers
Descs == {"file missing"}

\* call sites <<file!(), line!()>> of the calling code (spec section 8): where
\* it invokes new_err!, new_err_with!(kind, ..) and new_err_with!(suberr)
NewLocs == {<<"x.rs", 10>>}
RethrowLocs == {<<"y.rs", 20>>}
PropagateLocs == {<<"z.rs", 30>>}

\* local variables of the calling code
ESlots == {"e1"}
WSlots == {"w1", "w2"}

\* the threads an error is sent between
Threads == {"t1", "t2"}

\* addresses of Rc boxes
Addrs == 1..MaxProps

None == <<>>
Some(x) == <<x>>

---------------------------------------------------------------------------
(* Formatting *)

\* format!("{:?}", kind) for the derived Debug of a field-less enum variant
Debug(kind) ==
    CASE kind = "Kind::Io" -> "Io"
      [] kind = "Kind::Parse" -> "Parse"

\* description.to_string() for a String / &str argument
to_string(description) == description

---------------------------------------------------------------------------
(* Rc<WrappedError>: std::rc::Rc as used by the sub_error fields *)

\* (variant) the allocator hands out the lowest address even when it is in use
Rc_new_addr_reuse(h) == CHOOSE a \in Addrs : \A b \in Addrs : a <= b

Rc_new_addr(h) == CHOOSE a \in Addrs : h[a] = None /\ \A b \in Addrs : h[b] = None => a <= b

\* (variant) no new box: the one the value already points to is edited in place
Rc_new_inplace(h, value) ==
    IF value.sub_error = None
    THEN LET rc == Rc_new_addr(h)
         IN  [rc |-> rc, heap |-> [h EXCEPT ![rc] = Some([strong |-> 1, value |-> value])]]
    ELSE LET rc == value.sub_error[1]
         IN  [rc |-> rc, heap |-> [h EXCEPT ![rc] = Some([h[rc][1] EXCEPT !.value = value])]]

\* Rc::new(value): a fresh box with strong count 1
Rc_new(h, value) ==
    LET rc == Rc_new_addr(h)
    IN  [rc |-> rc, heap |-> [h EXCEPT ![rc] = Some([strong |-> 1, value |-> value])]]

\* Rc::clone(rc): the same box, strong count + 1
Rc_clone(h, rc) == [h EXCEPT ![rc] = Some([h[rc][1] EXCEPT !.strong = @ + 1])]

\* Drop for Rc: strong count - 1; at 0 the value is dropped (its own
\* sub_error first) and the box is freed
RECURSIVE Rc_drop(_, _)
Rc_drop(h, rc) ==
    LET box == h[rc][1]
    IN  IF box.strong - 1 = 0
        THEN LET inner == IF box.value.sub_error = None THEN h
                          ELSE Rc_drop(h, box.value.sub_error[1])
             IN  [inner EXCEPT ![rc] = None]
        ELSE [h EXCEPT ![rc] = Some([box EXCEPT !.strong = @ - 1])]

\* dropping an Error<T> or a WrappedError drops its sub_error field
drop(h, value) == IF value.sub_error = None THEN h ELSE Rc_drop(h, value.sub_error[1])

---------------------------------------------------------------------------
(* WrappedError *)

\* (variant) the erased error loses its cause
From_noCause(error) ==
    [kind_repr |-> Debug(error.kind), description |-> error.description,
     file |-> error.file, line |-> error.line,
     sub_error |-> None]

\* impl From<Error<T>> for WrappedError
From(error) ==
    [kind_repr |-> Debug(error.kind), description |-> error.description,
     file |-> error.file, line |-> error.line,
     sub_error |-> error.sub_error]

\* #[derive(Clone)] for WrappedError: the fields cloned, the Rc shared
clone(h, w) ==
    [value |-> w,
     heap |-> IF w.sub_error = None THEN h ELSE Rc_clone(h, w.sub_error[1])]

\* (variant) the indent of a nested cause grows with its depth
RECURSIVE WrappedError_fmt_indent(_, _)
WrappedError_fmt_indent(h, self) ==
    LET head == self.kind_repr \o ": " \o self.description \o " (at " \o self.file
                    \o ":" \o ToString(self.line) \o ")"
    IN  IF self.sub_error # None
        THEN LET sub == WrappedError_fmt_indent(h, h[self.sub_error[1]][1].value)
             IN  [out |-> head \o "\n    - " \o sub.out, depth |-> sub.depth + 1]
        ELSE [out |-> head, depth |-> 1]

\* impl Display for WrappedError: the text written, and how many nested
\* fmt calls (one per level, through sub_error.to_string()) produced it
RECURSIVE WrappedError_fmt(_, _)
WrappedError_fmt(h, self) ==
    LET head == self.kind_repr \o ": " \o self.description \o " (at " \o self.file
                    \o ":" \o ToString(self.line) \o ")"
    IN  IF self.sub_error # None
        THEN LET sub == WrappedError_fmt(h, h[self.sub_error[1]][1].value)
             IN  [out |-> head \o "\n  - " \o sub.out, depth |-> sub.depth + 1]
        ELSE [out |-> head, depth |-> 1]

---------------------------------------------------------------------------
(* Error<T> *)

with_kind_desc(kind, description, file, line) ==
    [kind |-> kind, description |-> to_string(description),
     file |-> file, line |-> line, sub_error |-> None]

\* (variant) the description is the kind's path, not its Debug text
with_kind_path(kind, file, line) == with_kind_desc(kind, kind, file, line)

with_kind(kind, file, line) ==
    LET description == Debug(kind)
    IN  with_kind_desc(kind, description, file, line)

\* (variant) the new error takes over the description of its cause
propagate_with_kind_desc_inherit(h, kind, description, sub_error, file, line) ==
    LET new == Rc_new(h, sub_error)
    IN  [value |-> [kind |-> kind, description |-> sub_error.description,
                    file |-> file, line |-> line, sub_error |-> Some(new.rc)],
         heap |-> new.heap]

\* returns the new error and the heap with the new Rc box
propagate_with_kind_desc(h, kind, description, sub_error, file, line) ==
    LET new == Rc_new(h, sub_error)
    IN  [value |-> [kind |-> kind, description |-> to_string(description),
                    file |-> file, line |-> line, sub_error |-> Some(new.rc)],
         heap |-> new.heap]

propagate_with_kind(h, kind, sub_error, file, line) ==
    LET description == Debug(kind)
    IN  propagate_with_kind_desc(h, kind, description, sub_error, file, line)

\* (variant) the description is derived from the kind again
propagate_rederive(h, sub_error, file, line) ==
    propagate_with_kind(h, sub_error.kind, From(sub_error), file, line)

propagate(h, sub_error, file, line) ==
    propagate_with_kind_desc(h, sub_error.kind, sub_error.description,
                             From(sub_error), file, line)

\* (variant) rendering with a defensive maximum depth: below RenderMaxDepth
\* levels the chain is cut with an ellipsis marker
RECURSIVE WrappedError_fmt_upto(_, _, _)
WrappedError_fmt_upto(h, self, budget) ==
    IF budget = 0 THEN [out |-> "...", depth |-> 0]
    ELSE LET head == self.kind_repr \o ": " \o self.description \o " (at " \o self.file
                         \o ":" \o ToString(self.line) \o ")"
         IN  IF self.sub_error # None
             THEN LET sub == WrappedError_fmt_upto(h, h[self.sub_error[1]][1].value, budget - 1)
                  IN  [out |-> head \o "\n  - " \o sub.out, depth |-> sub.depth + 1]
             ELSE [out |-> head, depth |-> 1]

Error_fmt_limited(h, self) ==
    WrappedError_fmt_upto(h, [kind_repr |-> Debug(self.kind), description |-> self.description,
                              file |-> self.file, line |-> self.line,
                              sub_error |-> self.sub_error], RenderMaxDepth)

\* (variant) the older rendering format, with the kind in parentheses
Error_fmt_paren(h, self) ==
    LET head == "(" \o Debug(self.kind) \o ") " \o self.description \o " (at " \o self.file
                    \o ":" \o ToString(self.line) \o ")"
    IN  IF self.sub_error # None
        THEN LET sub == WrappedError_fmt(h, h[self.sub_error[1]][1].value)
             IN  [out |-> head \o "\n  - " \o sub.out, depth |-> sub.depth + 1]
        ELSE [out |-> head, depth |-> 1]

\* impl Display for Error<T>
Error_fmt(h, self) ==
    LET head == Debug(self.kind) \o ": " \o self.description \o " (at " \o self.file
                    \o ":" \o ToString(self.line) \o ")"
    IN  IF self.sub_error # None
        THEN LET sub == WrappedError_fmt(h, h[self.sub_error[1]][1].value)
             IN  [out |-> head \o "\n  - " \o sub.out, depth |-> sub.depth + 1]
        ELSE [out |-> head, depth |-> 1]

\* the sub-errors beneath a sub_error field, outermost first
RECURSIVE ChainOf(_, _)
ChainOf(h, sub_error) ==
    IF sub_error = None THEN <<>>
    ELSE <<h[sub_error[1]][1].value>> \o ChainOf(h, h[sub_error[1]][1].value.sub_error)

---------------------------------------------------------------------------
(* The calling code: one action per library operation *)

Init ==
    /\ errors = [s \in ESlots |-> None]
    /\ wrapped = [s \in WSlots |-> None]
    /\ heap = [a \in Addrs |-> None]
    /\ props = 0
    /\ last = [op |-> "init", arg |-> <<>>, res |-> <<>>, pre |-> <<>>]
    /\ strong = 1
    /\ freed = FALSE
    /\ uaf = FALSE
    /\ held = [t \in Threads |-> IF t = "t1" THEN 1 ELSE 0]
    /\ tpc = [t \in Threads |-> "idle"]
    /\ tmp = [t \in Threads |-> 0]

\* new_err!(kind, description)
NewErrDesc ==
    \E s \in ESlots, kind \in Kinds, description \in Descs, loc \in NewLocs :
        /\ errors[s] = None
        /\ LET e == with_kind_desc(kind, description, loc[1], loc[2])
           IN  /\ errors' = [errors EXCEPT ![s] = Some(e)]
               /\ last' = [op |-> "with_kind_desc",
                           arg |-> <<kind, description, loc>>, res |-> <<e>>, pre |-> <<>>]
        /\ UNCHANGED <<wrapped, heap, props>>
        /\ UNCHANGED tvars

\* new_err!(kind)
NewErr ==
    \E s \in ESlots, kind \in Kinds, loc \in NewLocs :
        /\ errors[s] = None
        /\ LET e == with_kind(kind, loc[1], loc[2])
           IN  /\ errors' = [errors EXCEPT ![s] = Some(e)]
               /\ last' = [op |-> "with_kind", arg |-> <<kind, loc>>, res |-> <<e>>,
                           pre |-> <<>>]
        /\ UNCHANGED <<wrapped, heap, props>>
        /\ UNCHANGED tvars

\* let w: WrappedError = error.into()
Into ==
    \E s \in ESlots, t \in WSlots :
        /\ errors[s] # None
        /\ wrapped[t] = None
        /\ LET e == errors[s][1]
               w == From(e)
           IN  /\ wrapped' = [wrapped EXCEPT ![t] = Some(w)]
               /\ last' = [op |-> "from", arg |-> <<e>>, res |-> <<w>>,
                           pre |-> ChainOf(heap, e.sub_error)]
        /\ errors' = [errors EXCEPT ![s] = None]
        /\ UNCHANGED <<heap, props>>
        /\ UNCHANGED tvars

\* new_err_with!(kind, description, suberr) with suberr a WrappedError
PropagateWithKindDesc ==
    \E s \in ESlots, t \in WSlots, kind \in Kinds, description \in Descs, loc \in RethrowLocs :
        /\ props < MaxProps
        /\ errors[s] = None
        /\ wrapped[t] # None
        /\ LET w == wrapped[t][1]
               r == propagate_with_kind_desc(heap, kind, description, w, loc[1], loc[2])
           IN  /\ errors' = [errors EXCEPT ![s] = Some(r.value)]
               /\ heap' = r.heap
               /\ last' = [op |-> "propagate_with_kind_desc",
                           arg |-> <<kind, description, w, loc>>, res |-> <<r.value>>,
                           pre |-> ChainOf(heap, w.sub_error)]
        /\ wrapped' = [wrapped EXCEPT ![t] = None]
        /\ props' = props + 1
        /\ UNCHANGED tvars

\* new_err_with!(kind, suberr) with suberr a WrappedError
PropagateWithKind ==
    \E s \in ESlots, t \in WSlots, kind \in Kinds, loc \in RethrowLocs :
        /\ props < MaxProps
        /\ errors[s] = None
        /\ wrapped[t] # None
        /\ LET w == wrapped[t][1]
               r == propagate_with_kind(heap, kind, w, loc[1], loc[2])
           IN  /\ errors' = [errors EXCEPT ![s] = Some(r.value)]
               /\ heap' = r.heap
               /\ last' = [op |-> "propagate_with_kind",
                           arg |-> <<kind, w, loc>>, res |-> <<r.value>>,
                           pre |-> ChainOf(heap, w.sub_error)]
        /\ wrapped' = [wrapped EXCEPT ![t] = None]
        /\ props' = props + 1
        /\ UNCHANGED tvars

\* new_err_with!(suberr) with suberr an Error<T>; the argument is moved out
\* of its slot and the result bound there
Propagate ==
    \E s \in ESlots, loc \in PropagateLocs :
        /\ props < MaxProps
        /\ errors[s] # None
        /\ LET e == errors[s][1]
               r == propagate(heap, e, loc[1], loc[2])
           IN  /\ errors' = [errors EXCEPT ![s] = Some(r.value)]
               /\ heap' = r.heap
               /\ last' = [op |-> "propagate", arg |-> <<e, loc>>, res |-> <<r.value>>,
                           pre |-> ChainOf(heap, e.sub_error)]
        /\ props' = props + 1
        /\ UNCHANGED wrapped
        /\ UNCHANGED tvars

\* let w2 = w.clone()
Clone ==
    \E t \in WSlots, u \in WSlots :
        /\ wrapped[t] # None
        /\ wrapped[u] = None
        /\ LET w == wrapped[t][1]
               r == clone(heap, w)
           IN  /\ wrapped' = [wrapped EXCEPT ![u] = Some(r.value)]
               /\ heap' = r.heap
               /\ last' = [op |-> "clone", arg |-> <<w>>, res |-> <<r.value>>,
                           pre |-> ChainOf(heap, w.sub_error)]
        /\ UNCHANGED <<errors, props>>
        /\ UNCHANGED tvars

\* an Error<T> goes out of scope
DropError ==
    \E s \in ESlots :
        /\ errors[s] # None
        /\ heap' = drop(heap, errors[s][1])
        /\ errors' = [errors EXCEPT ![s] = None]
        /\ last' = [op |-> "drop", arg |-> <<>>, res |-> <<>>, pre |-> <<>>]
        /\ UNCHANGED <<wrapped, props>>
        /\ UNCHANGED tvars

\* a WrappedError goes out of scope
DropWrapped ==
    \E t \in WSlots :
        /\ wrapped[t] # None
        /\ heap' = drop(heap, wrapped[t][1])
        /\ wrapped' = [wrapped EXCEPT ![t] = None]
        /\ last' = [op |-> "drop", arg |-> <<>>, res |-> <<>>, pre |-> <<>>]
        /\ UNCHANGED <<errors, props>>
        /\ UNCHANGED tvars

\* error.to_string()
FmtError ==
    \E s \in ESlots :
        /\ errors[s] # None
        /\ last' = [op |-> "fmt_error", arg |-> <<errors[s][1]>>,
                    res |-> <<Error_fmt(heap, errors[s][1])>>, pre |-> <<>>]
        /\ UNCHANGED <<errors, wrapped, heap, props>>
        /\ UNCHANGED tvars

\* wrapped.to_string()
FmtWrapped ==
    \E t \in WSlots :
        /\ wrapped[t] # None
        /\ last' = [op |-> "fmt_wrapped", arg |-> <<wrapped[t][1]>>,
                    res |-> <<WrappedError_fmt(heap, wrapped[t][1])>>, pre |-> <<>>]
        /\ UNCHANGED <<errors, wrapped, heap, props>>
        /\ UNCHANGED tvars



Next ==
    \/ NewErrDesc
    \/ NewErr
    \/ Into
    \/ PropagateWithKindDesc
    \/ PropagateWithKind
    \/ Propagate
    \/ Clone
    \/ DropError
    \/ DropWrapped
    \/ FmtError
    \/ FmtWrapped

Spec == Init /\ [][Next]_vars

---------------------------------------------------------------------------
(* Clones of one error on several threads.  std::rc::Rc keeps its strong    *)
(* count in a Cell<usize>: Rc::clone reads the count and then writes        *)
(* count + 1, Rc::drop reads it, writes count - 1, reads it again and frees *)
(* the box at 0.  None of these is atomic, so each is a step of its own.    *)

Sum(f) == f["t1"] + f["t2"]

\* thread::spawn(move || ..) / channel send: a clone moves from t to u
Send(t, u) ==
    /\ t # u
    /\ tpc[t] = "idle"
    /\ held[t] > 0
    /\ held' = [held EXCEPT ![t] = @ - 1, ![u] = @ + 1]
    /\ UNCHANGED <<strong, freed, uaf, tpc, tmp, svars>>

\* w.clone(), first half: Rc::clone reads the strong count
CloneLoad(t) ==
    /\ tpc[t] = "idle"
    /\ held[t] > 0
    /\ ~freed /\ strong > 0
    /\ strong < MaxHolders
    /\ Sum(held) + Cardinality({u \in Threads : tpc[u] = "inc_store"}) < MaxHolders
    /\ tmp' = [tmp EXCEPT ![t] = strong]
    /\ tpc' = [tpc EXCEPT ![t] = "inc_store"]
    /\ UNCHANGED <<strong, freed, uaf, held, svars>>

\* w.clone(), second half: Rc::clone writes the count it read, plus one
CloneStore(t) ==
    /\ tpc[t] = "inc_store"
    /\ ~freed
    /\ strong' = tmp[t] + 1
    /\ held' = [held EXCEPT ![t] = @ + 1]
    /\ tpc' = [tpc EXCEPT ![t] = "idle"]
    /\ UNCHANGED <<freed, uaf, tmp, svars>>

\* a clone goes out of scope: Rc::drop reads the strong count
DropLoad(t) ==
    /\ tpc[t] = "idle"
    /\ held[t] > 0
    /\ ~freed /\ strong > 0
    /\ tmp' = [tmp EXCEPT ![t] = strong]
    /\ held' = [held EXCEPT ![t] = @ - 1]
    /\ tpc' = [tpc EXCEPT ![t] = "dec_store"]
    /\ UNCHANGED <<strong, freed, uaf, svars>>

\* Rc::drop writes the count it read, minus one
DropStore(t) ==
    /\ tpc[t] = "dec_store"
    /\ ~freed
    /\ strong' = tmp[t] - 1
    /\ tpc' = [tpc EXCEPT ![t] = "dec_check"]
    /\ UNCHANGED <<freed, uaf, held, tmp, svars>>

\* Rc::drop reads the count again and at 0 drops the value and frees the box
DropCheck(t) ==
    /\ tpc[t] = "dec_check"
    /\ ~freed
    /\ freed' = (strong = 0)
    /\ tpc' = [tpc EXCEPT ![t] = "idle"]
    /\ UNCHANGED <<strong, uaf, held, tmp, svars>>

\* a thread that still holds a clone, or is inside Rc::clone / Rc::drop,
\* touches the box after it was freed, or starts Rc::clone / Rc::drop on a
\* box whose count is already 0 (its value is being dropped); what that
\* access does is undefined and is not followed further
UseAfterFree(t) ==
    /\ ~uaf
    /\ \/ freed /\ (held[t] > 0 \/ tpc[t] # "idle")
       \/ ~freed /\ strong = 0 /\ held[t] > 0 /\ tpc[t] = "idle"
    /\ uaf' = TRUE
    /\ UNCHANGED <<strong, freed, held, tpc, tmp, svars>>

ThreadNext ==
    \/ \E t \in Threads, u \in Threads : Send(t, u)
    \/ \E t \in Threads : CloneLoad(t)
    \/ \E t \in Threads : CloneStore(t)
    \/ \E t \in Threads : DropLoad(t)
    \/ \E t \in Threads : DropStore(t)
    \/ \E t \in Threads : DropCheck(t)
    \/ \E t \in Threads : UseAfterFree(t)

SpecThreads == Init /\ [][ThreadNext]_vars

---------------------------------------------------------------------------
(* Reference definitions used by the properties *)

\* the single-level text "<kind>: <description> (at <file>:<line>)"
Single(kind_text, v) ==
    kind_text \o ": " \o v.description \o " (at " \o v.file \o ":" \o ToString(v.line) \o ")"

\* the single-level texts of a head and the chain beneath it
LevelsOf(kind_text, v, chain) ==
    <<Single(kind_text, v)>> \o [i \in 1..Len(chain) |-> Single(chain[i].kind_repr, chain[i])]

\* t1, then "\n  - " and t2, then "\n  - " and t3, ...
RECURSIVE JoinLevels(_)
JoinLevels(texts) ==
    IF Len(texts) = 1 THEN texts[1]
    ELSE texts[1] \o "\n  - " \o JoinLevels(Tail(texts))

\* following the cause links from sub_error ends at an error with no cause
\* within `fuel` links, every link leading to a live box
RECURSIVE EndsWithin(_, _, _)
EndsWithin(h, sub_error, fuel) ==
    \/ sub_error = None
    \/ /\ fuel > 0
       /\ h[sub_error[1]] # None
       /\ EndsWithin(h, h[sub_error[1]][1].value.sub_error, fuel - 1)

\* the boxes reached from sub_error by at most `fuel` links
RECURSIVE Reached(_, _, _)
Reached(h, sub_error, fuel) ==
    IF sub_error = None \/ fuel = 0 \/ h[sub_error[1]] = None THEN {}
    ELSE {sub_error[1]} \cup Reached(h, h[sub_error[1]][1].value.sub_error, fuel - 1)

LastIsFmt == last.op \in {"fmt_error", "fmt_wrapped"}

\* the levels of the value the last fmt call rendered
LastFmtLevels ==
    LET v == last.arg[1]
    IN  LevelsOf(IF last.op = "fmt_error" THEN Debug(v.kind) ELSE v.kind_repr,
                 v, ChainOf(heap, v.sub_error))

---------------------------------------------------------------------------
(* Properties *)

\* C1: erasing a typed error e (WrappedError::from) keeps e's description,
\* file, line and cause (the same Rc, with the whole chain beneath it as it
\* was), sets kind_repr to the Debug text of e.kind, and has no other field.
C1_ErasePreserves ==
    last.op = "from" =>
        LET e == last.arg[1]
            w == last.res[1]
        IN  /\ w.description = e.description
            /\ w.file = e.file /\ w.line = e.line
            /\ w.sub_error = e.sub_error
            /\ ChainOf(heap, w.sub_error) = last.pre
            /\ w.kind_repr = Debug(e.kind)
            /\ DOMAIN w = {"kind_repr", "description", "file", "line", "sub_error"}

\* C1 witness: an error with an explicit description and a cause was erased
C1_Witness ==
    /\ last.op = "from"
    /\ last.arg[1].sub_error # None
    /\ last.arg[1].description # Debug(last.arg[1].kind)

\* C2: Error::propagate(E, file, line) returns an error with E's kind and
\* E's description, the new location, and as cause a fresh box holding the
\* erased E: E's printed kind, description, original location and E's own
\* cause chain.
C2_PropagateSameKind ==
    last.op = "propagate" =>
        LET E == last.arg[1]
            loc == last.arg[2]
            r == last.res[1]
        IN  /\ r.kind = E.kind
            /\ r.description = E.description
            /\ r.file = loc[1] /\ r.line = loc[2]
            /\ r.sub_error # None
            /\ heap[r.sub_error[1]] # None
            /\ LET cause == heap[r.sub_error[1]][1].value
               IN  /\ cause.kind_repr = Debug(E.kind)
                   /\ cause.description = E.description
                   /\ cause.file = E.file /\ cause.line = E.line
                   /\ cause.sub_error = E.sub_error
                   /\ ChainOf(heap, cause.sub_error) = last.pre

\* C2 witness: propagate was applied to an error with an explicit
\* description, another location and a cause of its own
C2_Witness ==
    /\ last.op = "propagate"
    /\ last.arg[1].description # Debug(last.arg[1].kind)
    /\ last.arg[1].sub_error # None
    /\ <<last.arg[1].file, last.arg[1].line>> # last.arg[2]

\* C3: without an explicit description (with_kind, propagate_with_kind) the
\* description is the Debug text of the kind; an explicit description
\* (with_kind_desc, propagate_with_kind_desc) is stored as supplied.
C3_DefaultDescription ==
    /\ last.op \in {"with_kind", "propagate_with_kind"} =>
           last.res[1].description = Debug(last.arg[1])
    /\ last.op \in {"with_kind_desc", "propagate_with_kind_desc"} =>
           last.res[1].description = last.arg[2]

\* C3 witness: an error with a cause was built without a description
C3_Witness ==
    /\ last.op = "propagate_with_kind"
    /\ last.res[1].description = "Parse"

\* C4: the rendering of an error is the single-level texts of the error and
\* of every level of its cause chain, outermost first, each after the first
\* preceded by exactly "\n  - ".
C4_RenderChain ==
    LastIsFmt => last.res[1].out = JoinLevels(LastFmtLevels)

\* C4 witness: a 3-level chain A, B, C was rendered as A\n  - B\n  - C
C4_Witness ==
    /\ LastIsFmt
    /\ Len(LastFmtLevels) = 3
    /\ last.res[1].out = LastFmtLevels[1] \o "\n  - " \o LastFmtLevels[2]
                            \o "\n  - " \o LastFmtLevels[3]

\* C5: from every error (in a slot or in a box) the cause links end at an
\* error with no cause within as many links as propagation steps were
\* performed, and no box is reached from itself.
C5_ChainsAcyclicFinite ==
    /\ \A s \in ESlots : errors[s] # None => EndsWithin(heap, errors[s][1].sub_error, props)
    /\ \A t \in WSlots : wrapped[t] # None => EndsWithin(heap, wrapped[t][1].sub_error, props)
    /\ \A a \in Addrs : heap[a] # None =>
           /\ EndsWithin(heap, heap[a][1].value.sub_error, props)
           /\ a \notin Reached(heap, heap[a][1].value.sub_error, MaxProps + 1)

\* C5 witness: after two propagation steps an error has a chain of exactly
\* two causes
C5_Witness ==
    /\ props = 2
    /\ \E s \in ESlots :
           /\ errors[s] # None
           /\ EndsWithin(heap, errors[s][1].sub_error, 2)
           /\ ~EndsWithin(heap, errors[s][1].sub_error, 1)

\* C6: under every interleaving of the threads the strong count of the shared
\* cause equals the number of clones holding it whenever no thread is inside
\* Rc::clone or Rc::drop, the box is not freed while a clone still holds it,
\* and freed memory is never touched.
C6_RcCountExact ==
    /\ ((\A t \in Threads : tpc[t] = "idle") /\ ~freed) => strong = Sum(held)
    /\ freed => Sum(held) = 0
    /\ ~uaf

\* C7: no step changes an existing error: a box that stays allocated keeps
\* its value, a value that stays in its slot keeps its fields and the chain
\* beneath it, and a propagation only puts a new head above the chain it was
\* given.
C7_Immutable ==
    [][/\ \A a \in Addrs : (heap[a] # None /\ heap'[a] # None) =>
              heap'[a][1].value = heap[a][1].value
       /\ \A t \in WSlots : (wrapped[t] # None /\ wrapped'[t] # None) =>
              /\ wrapped'[t] = wrapped[t]
              /\ ChainOf(heap', wrapped'[t][1].sub_error)
                     = ChainOf(heap, wrapped[t][1].sub_error)
       /\ \A s \in ESlots : (errors[s] # None /\ errors'[s] # None) =>
              IF last'.op = "propagate"
              THEN Tail(ChainOf(heap', errors'[s][1].sub_error))
                       = ChainOf(heap, errors[s][1].sub_error)
              ELSE /\ errors'[s] = errors[s]
                   /\ ChainOf(heap', errors'[s][1].sub_error)
                          = ChainOf(heap, errors[s][1].sub_error)
       /\ last'.op \in {"propagate_with_kind_desc", "propagate_with_kind"} =>
              Tail(ChainOf(heap', last'.res[1].sub_error)) = last'.pre
       /\ last'.op = "clone" =>
              /\ last'.res[1] = last'.arg[1]
              /\ ChainOf(heap', last'.res[1].sub_error) = last'.pre
      ]_vars

\* C7 witness: a wrapped error with a cause was cloned, and both clones are held
C7_Witness ==
    /\ last.op = "clone"
    /\ last.res[1].sub_error # None
    /\ \A t \in WSlots : wrapped[t] = Some(last.res[1])

\* C8: propagate_with_kind_desc / propagate_with_kind return an error with
\* the supplied kind, the supplied description (or the Debug text of the
\* supplied kind), the supplied location, and as cause a fresh box holding
\* exactly the supplied WrappedError; with_kind_desc / with_kind return an
\* error with no cause.
C8_CreateWithCause ==
    /\ last.op \in {"propagate_with_kind_desc", "propagate_with_kind"} =>
           LET r == last.res[1]
               w == IF last.op = "propagate_with_kind" THEN last.arg[2] ELSE last.arg[3]
               loc == IF last.op = "propagate_with_kind" THEN last.arg[3] ELSE last.arg[4]
           IN  /\ r.kind = last.arg[1]
               /\ r.description = IF last.op = "propagate_with_kind"
                                  THEN Debug(last.arg[1]) ELSE last.arg[2]
               /\ r.file = loc[1] /\ r.line = loc[2]
               /\ r.sub_error # None
               /\ heap[r.sub_error[1]] = Some([strong |-> 1, value |-> w])
               /\ ChainOf(heap, w.sub_error) = last.pre
    /\ last.op \in {"with_kind_desc", "with_kind"} =>
           LET r == last.res[1]
               loc == IF last.op = "with_kind" THEN last.arg[2] ELSE last.arg[3]
           IN  /\ r.kind = last.arg[1]
               /\ r.file = loc[1] /\ r.line = loc[2]
               /\ r.sub_error = None

\* C8 witness: an error was rethrown under another kind and description
\* than its cause's
C8_Witness ==
    /\ last.op = "propagate_with_kind_desc"
    /\ Debug(last.arg[1]) # last.arg[3].kind_repr
    /\ last.arg[2] # last.arg[3].description
    /\ last.arg[3].sub_error # None

\* C9 (as claimed): rendering a chain longer than the maximum depth stops
\* descending at that depth, so the recursion is no deeper than the maximum
\* and the text is not the full rendering of the chain.
C9_RenderDepthLimited ==
    (LastIsFmt /\ Len(LastFmtLevels) > RenderMaxDepth) =>
        /\ last.res[1].depth <= RenderMaxDepth
        /\ last.res[1].out # JoinLevels(LastFmtLevels)

\* C9 (amended): rendering imposes no maximum depth: the recursion is as deep
\* as the chain is long, also beyond RenderMaxDepth, and the text of a chain
\* longer than that is its full rendering, with no level cut.
C9_RenderFullDepth ==
    LastIsFmt =>
        /\ last.res[1].depth = Len(LastFmtLevels)
        /\ Len(LastFmtLevels) > RenderMaxDepth =>
               last.res[1].out = JoinLevels(LastFmtLevels)

\* C9 witness: a typed error whose chain is longer than RenderMaxDepth was
\* rendered
C9_Witness ==
    /\ last.op = "fmt_error"
    /\ Len(LastFmtLevels) > RenderMaxDepth
    /\ last.res[1].depth > RenderMaxDepth

\* C10: for every typed error held, Display for Error<T> writes the same text
\* as Display for WrappedError writes for the erased error.
C10_RenderCommutesWithErase ==
    \A s \in ESlots : errors[s] # None =>
        Error_fmt(heap, errors[s][1]).out = WrappedError_fmt(heap, From(errors[s][1])).out

\* C10 witness: a typed error with a chain of two causes was rendered
C10_Witness ==
    /\ last.op = "fmt_error"
    /\ \E s \in ESlots : errors[s] = Some(last.arg[1])
    /\ Len(ChainOf(heap, last.arg[1].sub_error)) = 2

=============================================================================
